---- MODULE Spec2Model ----
(***************************************************************************)
(* A model of internal/config/config.go: Override.Parse, the multi-engine  *)
(* check ValidateGlobalOverrides, ParseConfig (after JSON decoding) and    *)
(* Combine.                                                                *)
(*                                                                         *)
(* Go strings whose characters the code inspects (go_type, column, path,   *)
(* name and the fields derived from them) are sequences of one-character   *)
(* strings; the empty Go string is << >>.  Strings the code only compares  *)
(* or copies whole (version, engine, db_type, postgres_type) are TLA+      *)
(* strings.  Go slices in Combine are headers (array, len, cap) over a     *)
(* heap of backing arrays, as append distinguishes them.                   *)
(***************************************************************************)
EXTENDS Integers, Sequences, FiniteSets, TLC

VARIABLES
    pc,       \* position of the run: which operation has been applied
    raw,      \* Override.Parse: the override as decoded from the document
    ov,       \* Override.Parse: the receiver *o, mutated in place
    perr,     \* Override.Parse: the returned error
    doc,      \* ParseConfig: the decoded document
    config,   \* ParseConfig: the returned GenerateSettings
    cerr,     \* ParseConfig: the returned error
    heap,     \* Combine: backing arrays of []Override slices, by array id
    gen,      \* Combine: the validated settings handed to every call
    views,    \* Combine: the CombinedSettings returned so far, oldest first
    lastCall  \* Combine: the arguments of the latest call

vars == <<pc, raw, ov, perr, doc, config, cerr, heap, gen, views, lastCall>>

-----------------------------------------------------------------------------
(* Bounds of the model.                                                    *)

MaxTypeLen == 5       \* longest enumerated go_type string
MaxColumnLen == 7     \* longest enumerated column string
MaxItems == 3         \* largest document: its packages plus all its overrides
MaxGlobal == 2        \* most global overrides of the settings given to Combine
MaxSpare == 2         \* most spare capacity behind the global override slice
MaxCalls == 3         \* most Combine calls in one run

-----------------------------------------------------------------------------
(* Errors.  nil is success; "panic" is a Go run-time panic (index or slice *)
(* out of range), which is not an error value the caller receives.         *)

nil == "nil"
panic == "panic"
ErrPostgresAndDBType == "db_type and postgres_type together"
ErrColumnAndDBType == "both column and db_type"
ErrNoColumnNoDBType == "must specify one of column or db_type"
ErrColumnFormat == "column specifier is not the proper format"
ErrNotBasicType == "go_type is not a Go basic type"
ErrGoTypeFormat == "go_type is not the proper format, expected package.type"
ErrEngineRequired == "engine field is required for global type overrides"
ErrMissingVersion == "no version number"
ErrUnknownVersion == "invalid version number"
ErrNoPackages == "no packages"
ErrNoPackagePath == "missing package path"

EngineMySQL == "mysql"
EnginePostgreSQL == "postgresql"

-----------------------------------------------------------------------------
(* Go string operations, on sequences of characters.  Indices are Go's,    *)
(* from 0.                                                                 *)

\* strings.LastIndex(s, c) for a one-character c
LastIndex(s, c) ==
    IF \E i \in 1..Len(s) : s[i] = c
    THEN (CHOOSE i \in 1..Len(s) : s[i] = c /\ \A j \in (i+1)..Len(s) : s[j] # c) - 1
    ELSE -1

\* strings.Index(s, c) for a one-character c
Index(s, c) ==
    IF \E i \in 1..Len(s) : s[i] = c
    THEN (CHOOSE i \in 1..Len(s) : s[i] = c /\ \A j \in 1..(i-1) : s[j] # c) - 1
    ELSE -1

HasPrefix(s, p) == Len(s) >= Len(p) /\ SubSeq(s, 1, Len(p)) = p
HasSuffix(s, p) == Len(s) >= Len(p) /\ SubSeq(s, Len(s) - Len(p) + 1, Len(s)) = p

\* s[a:] and s[:b]; Go panics unless 0 <= a <= len(s), 0 <= b <= len(s)
SliceFromOK(s, a) == 0 <= a /\ a <= Len(s)
SliceFrom(s, a) == SubSeq(s, a + 1, Len(s))
SliceToOK(s, b) == 0 <= b /\ b <= Len(s)
SliceTo(s, b) == SubSeq(s, 1, b)
\* s[i]; Go panics unless 0 <= i < len(s)
IndexOK(s, i) == 0 <= i /\ i < Len(s)

\* strings.Split(s, c) for a one-character c: n separators give n+1 pieces
RECURSIVE Split(_, _)
Split(s, c) ==
    LET i == Index(s, c)
    IN  IF i = -1 THEN <<s>>
        ELSE <<SliceTo(s, i)>> \o Split(SliceFrom(s, i + 1), c)

\* filepath.Base on a system whose separator is '/'
RECURSIVE TrimTrailingSlashes(_)
TrimTrailingSlashes(s) ==
    IF Len(s) > 0 /\ s[Len(s)] = "/" THEN TrimTrailingSlashes(SliceTo(s, Len(s) - 1)) ELSE s

Base(path) ==
    IF path = << >> THEN <<".">>
    ELSE LET p == TrimTrailingSlashes(path)
             e == SliceFrom(p, LastIndex(p, "/") + 1)
         IN  IF e = << >> THEN <<"/">> ELSE e

-----------------------------------------------------------------------------
(* go/types.Typ: the names of the basic types whose Info() is neither 0    *)
(* (Invalid, UnsafePointer) nor untyped.                                   *)

BasicTypeNames ==
    { <<"b","o","o","l">>, <<"i","n","t">>, <<"i","n","t","8">>,
      <<"i","n","t","1","6">>, <<"i","n","t","3","2">>, <<"i","n","t","6","4">>,
      <<"u","i","n","t">>, <<"u","i","n","t","8">>, <<"u","i","n","t","1","6">>,
      <<"u","i","n","t","3","2">>, <<"u","i","n","t","6","4">>,
      <<"u","i","n","t","p","t","r">>,
      <<"f","l","o","a","t","3","2">>, <<"f","l","o","a","t","6","4">>,
      <<"c","o","m","p","l","e","x","6","4">>,
      <<"c","o","m","p","l","e","x","1","2","8">>,
      <<"s","t","r","i","n","g">> }

-----------------------------------------------------------------------------
(* Override and Override.Parse.                                            *)

FQNZero == [Catalog |-> << >>, Schema |-> << >>, Rel |-> << >>]

\* an Override as the decoder leaves it: the json fields set, the rest zero
NewOverride(goType, dbType, postgresType, engine, column) ==
    [GoType |-> goType, DBType |-> dbType, Deprecated_PostgresType |-> postgresType,
     Engine |-> engine, Column |-> column,
     ColumnName |-> << >>, Table |-> FQNZero,
     GoTypeName |-> << >>, GoPackage |-> << >>, GoBasicType |-> FALSE]

\* every stage returns the override as mutated so far and the error, if any
Ret(o, err) == [o |-> o, err |-> err]

\* ParseDeprecated without the check for db_type: the alias overwrites it
ParseDeprecated_Overwrite(o) ==
    IF o.Deprecated_PostgresType # ""
    THEN Ret([o EXCEPT !.DBType = o.Deprecated_PostgresType], nil)
    ELSE Ret(o, nil)

\* validate deprecated postgres_type field
ParseDeprecated(o) ==
    IF o.Deprecated_PostgresType # ""
    THEN IF o.DBType # ""
         THEN Ret(o, ErrPostgresAndDBType)
         ELSE Ret([o EXCEPT !.DBType = o.Deprecated_PostgresType], nil)
    ELSE Ret(o, nil)

\* validate option combinations
ParseCombination(o) ==
    IF o.Column # << >> /\ o.DBType # "" THEN Ret(o, ErrColumnAndDBType)
    ELSE IF o.Column = << >> /\ o.DBType = "" THEN Ret(o, ErrNoColumnNoDBType)
    ELSE Ret(o, nil)

\* ParseColumn with a fifth segment tolerated: more than four segments are
\* read as four
ParseColumn_Lenient(o) ==
    IF o.Column # << >>
    THEN LET colParts == Split(o.Column, ".")
         IN  CASE Len(colParts) = 2 ->
                    Ret([o EXCEPT !.ColumnName = colParts[2],
                                  !.Table = [Catalog |-> << >>,
                                             Schema |-> <<"p","u","b","l","i","c">>,
                                             Rel |-> colParts[1]]], nil)
               [] Len(colParts) = 3 ->
                    Ret([o EXCEPT !.ColumnName = colParts[3],
                                  !.Table = [Catalog |-> << >>,
                                             Schema |-> colParts[1],
                                             Rel |-> colParts[2]]], nil)
               [] Len(colParts) >= 4 ->
                    Ret([o EXCEPT !.ColumnName = colParts[4],
                                  !.Table = [Catalog |-> colParts[1],
                                             Schema |-> colParts[2],
                                             Rel |-> colParts[3]]], nil)
               [] OTHER -> Ret(o, ErrColumnFormat)
    ELSE Ret(o, nil)

\* validate Column
ParseColumn(o) ==
    IF o.Column # << >>
    THEN LET colParts == Split(o.Column, ".")
         IN  CASE Len(colParts) = 2 ->
                    Ret([o EXCEPT !.ColumnName = colParts[2],
                                  !.Table = [Catalog |-> << >>,
                                             Schema |-> <<"p","u","b","l","i","c">>,
                                             Rel |-> colParts[1]]], nil)
               [] Len(colParts) = 3 ->
                    Ret([o EXCEPT !.ColumnName = colParts[3],
                                  !.Table = [Catalog |-> << >>,
                                             Schema |-> colParts[1],
                                             Rel |-> colParts[2]]], nil)
               [] Len(colParts) = 4 ->
                    Ret([o EXCEPT !.ColumnName = colParts[4],
                                  !.Table = [Catalog |-> colParts[1],
                                             Schema |-> colParts[2],
                                             Rel |-> colParts[3]]], nil)
               [] OTHER -> Ret(o, ErrColumnFormat)
    ELSE Ret(o, nil)

GoDash == <<"g","o","-">>
DashGo == <<"-","g","o">>

\* typename with a leading "go-" and then a trailing "-go" removed
StripGoAffixes(typename) ==
    LET t1 == IF HasPrefix(typename, GoDash) THEN SliceFrom(typename, Len(GoDash))
              ELSE typename
    IN  IF HasSuffix(t1, DashGo) THEN SliceTo(t1, Len(t1) - Len(DashGo)) ELSE t1

\* ParsePointer with the sigil left on the package path
ParsePointer_KeepSigil(o) ==
    IF ~IndexOK(o.GoType, 0) THEN Ret(o, panic)
    ELSE IF o.GoType[1] = "*"
         THEN Ret([o EXCEPT !.GoTypeName = <<"*">> \o o.GoTypeName], nil)
         ELSE Ret(o, nil)

\* the pointer step that ends Parse: o.GoType[0], o.GoPackage[1:]
ParsePointer(o) ==
    IF ~IndexOK(o.GoType, 0) THEN Ret(o, panic)
    ELSE IF o.GoType[1] = "*"
         THEN IF ~SliceFromOK(o.GoPackage, 1) THEN Ret(o, panic)
              ELSE Ret([o EXCEPT !.GoPackage = SliceFrom(o.GoPackage, 1),
                                 !.GoTypeName = <<"*">> \o o.GoTypeName], nil)
         ELSE Ret(o, nil)

\* ParseBasicType without the return for a name that is not a basic type
ParseBasicType_NoReturn(o) ==
    ParsePointer([o EXCEPT !.GoBasicType = TRUE, !.GoTypeName = o.GoType])

\* validate GoType: the basic-type branch
ParseBasicType(o) ==
    IF o.GoType \notin BasicTypeNames THEN Ret(o, ErrNotBasicType)
    ELSE ParsePointer([o EXCEPT !.GoBasicType = TRUE, !.GoTypeName = o.GoType])

\* validate GoType: the branch that assumes the type lives in a Go package
ParsePackageType(o) ==
    LET lastDot == LastIndex(o.GoType, ".")
        lastSlash == LastIndex(o.GoType, "/")
    IN  IF lastDot = -1 THEN Ret(o, ErrGoTypeFormat)
        ELSE IF lastSlash = -1 THEN Ret(o, ErrGoTypeFormat)
        ELSE IF ~SliceFromOK(o.GoType, lastSlash + 1) \/ ~SliceToOK(o.GoType, lastDot)
             THEN Ret(o, panic)
        ELSE ParsePointer([o EXCEPT
                 !.GoPackage = SliceTo(o.GoType, lastDot),
                 !.GoTypeName = StripGoAffixes(SliceFrom(o.GoType, lastSlash + 1))])

\* validate GoType
ParseGoType(o) ==
    IF LastIndex(o.GoType, ".") = -1 /\ LastIndex(o.GoType, "/") = -1
    THEN ParseBasicType(o)
    ELSE ParsePackageType(o)

\* Override.Parse: the stages in order, each returning at its first error;
\* r is what the stage before returned
AfterColumn(r) == IF r.err # nil THEN r ELSE ParseGoType(r.o)
AfterCombination(r) == IF r.err # nil THEN r ELSE AfterColumn(ParseColumn(r.o))
AfterDeprecated(r) == IF r.err # nil THEN r ELSE AfterCombination(ParseCombination(r.o))

Parse(o) == AfterDeprecated(ParseDeprecated(o))

-----------------------------------------------------------------------------
(* GenerateSettings, ValidateGlobalOverrides and ParseConfig.  A document  *)
(* is the GenerateSettings value the JSON decoder produced; its override   *)
(* lists are sequences here, since ParseConfig only indexes them.          *)

\* [1..n] as a set of list indices
Range(list) == 1..Len(list)

\* ValidateGlobalOverrides counting the engines as they are after defaulting
ValidateGlobalOverrides_Defaulted(c) ==
    LET engines == { IF c.Packages[j].Engine = "" THEN EnginePostgreSQL
                     ELSE c.Packages[j].Engine : j \in Range(c.Packages) }
        usesMultipleEngines == Cardinality(engines) > 1
    IN  IF \E i \in Range(c.Overrides) : usesMultipleEngines /\ c.Overrides[i].Engine = ""
        THEN ErrEngineRequired
        ELSE nil

\* c.ValidateGlobalOverrides()
ValidateGlobalOverrides(c) ==
    LET engines == { c.Packages[j].Engine : j \in Range(c.Packages) }
        usesMultipleEngines == Cardinality(engines) > 1
    IN  IF \E i \in Range(c.Overrides) : usesMultipleEngines /\ c.Overrides[i].Engine = ""
        THEN ErrEngineRequired
        ELSE nil

\* for i := range overrides { overrides[i].Parse() }, from index i: the list
\* as mutated, and the first error; OverrideParsed is the rest of one
\* iteration, r being what overrides[i].Parse() returned
RECURSIVE ParseOverrides(_, _), OverrideParsed(_, _, _)
ParseOverrides(overrides, i) ==
    IF i > Len(overrides) THEN [overrides |-> overrides, err |-> nil]
    ELSE OverrideParsed(overrides, i, Parse(overrides[i]))

OverrideParsed(overrides, i, r) ==
    IF r.err # nil THEN [overrides |-> [overrides EXCEPT ![i] = r.o], err |-> r.err]
    ELSE ParseOverrides([overrides EXCEPT ![i] = r.o], i + 1)

\* PackageOverridesParsed with the name defaulted to the whole path
PackageOverridesParsed_NameIsPath(pkg, r) ==
    IF r.err # nil THEN [pkg |-> [pkg EXCEPT !.Overrides = r.overrides], err |-> r.err]
    ELSE [pkg |-> [pkg EXCEPT
                     !.Overrides = r.overrides,
                     !.Name = IF pkg.Name = << >> THEN pkg.Path ELSE @,
                     !.Engine = IF pkg.Engine = "" THEN EnginePostgreSQL ELSE @],
          err |-> nil]

\* the body of the loop over config.Packages after the package's overrides
\* are parsed, r being what their loop produced
PackageOverridesParsed(pkg, r) ==
    IF r.err # nil THEN [pkg |-> [pkg EXCEPT !.Overrides = r.overrides], err |-> r.err]
    ELSE [pkg |-> [pkg EXCEPT
                     !.Overrides = r.overrides,
                     !.Name = IF pkg.Name = << >> THEN Base(pkg.Path) ELSE @,
                     !.Engine = IF pkg.Engine = "" THEN EnginePostgreSQL ELSE @],
          err |-> nil]

\* the loop body with the path checked after the overrides
PathCheckedLast(pkg, r) ==
    IF r.err # nil THEN [pkg |-> [pkg EXCEPT !.Overrides = r.overrides], err |-> r.err]
    ELSE IF pkg.Path = << >>
         THEN [pkg |-> [pkg EXCEPT !.Overrides = r.overrides], err |-> ErrNoPackagePath]
    ELSE PackageOverridesParsed(pkg, r)

ParsePackage_PathLast(pkg) == PathCheckedLast(pkg, ParseOverrides(pkg.Overrides, 1))

\* the body of the loop over config.Packages, for one package
ParsePackage(pkg) ==
    IF pkg.Path = << >> THEN [pkg |-> pkg, err |-> ErrNoPackagePath]
    ELSE PackageOverridesParsed(pkg, ParseOverrides(pkg.Overrides, 1))

\* for j := range config.Packages { ... }, from index j; PackageParsed is the
\* end of one iteration, r being what its body produced
RECURSIVE ParsePackages(_, _), PackageParsed(_, _, _)
ParsePackages(c, j) ==
    IF j > Len(c.Packages) THEN [config |-> c, err |-> nil]
    ELSE PackageParsed(c, j, ParsePackage(c.Packages[j]))

PackageParsed(c, j, r) ==
    IF r.err # nil THEN [config |-> [c EXCEPT !.Packages[j] = r.pkg], err |-> r.err]
    ELSE ParsePackages([c EXCEPT !.Packages[j] = r.pkg], j + 1)

\* ParseConfig after the loop over config.Overrides, r being what it produced
GlobalOverridesParsed(c, r) ==
    IF r.err # nil THEN [config |-> [c EXCEPT !.Overrides = r.overrides], err |-> r.err]
    ELSE ParsePackages([c EXCEPT !.Overrides = r.overrides], 1)

\* ParseConfig, from the decoded document on
ParseConfig(c) ==
    IF c.Version = "" THEN [config |-> c, err |-> ErrMissingVersion]
    ELSE IF c.Version # "1" THEN [config |-> c, err |-> ErrUnknownVersion]
    ELSE IF Len(c.Packages) = 0 THEN [config |-> c, err |-> ErrNoPackages]
    ELSE IF ValidateGlobalOverrides(c) # nil
         THEN [config |-> c, err |-> ValidateGlobalOverrides(c)]
    ELSE GlobalOverridesParsed(c, ParseOverrides(c.Overrides, 1))

-----------------------------------------------------------------------------
(* Slices of Override and Combine.  A slice is a header [arr, len, cap]    *)
(* over the backing array h[arr]; the nil slice has arr = 0.               *)

\* the elements s[0], ..., s[len-1]
Read(h, s) == IF s.len = 0 THEN << >> ELSE SubSeq(h[s.arr], 1, s.len)

\* append(s, t...): within the capacity of s the elements of t are written
\* into the backing array of s after its len elements, and the result shares
\* that array; beyond it a new array receives the elements of both
AppendSlice(h, s, t) ==
    LET need == s.len + t.len
    IN  IF need <= s.cap
        THEN [heap |-> IF t.len = 0 THEN h
                       ELSE [h EXCEPT ![s.arr] =
                               [i \in 1..Len(@) |->
                                  IF i > s.len /\ i <= need THEN Read(h, t)[i - s.len]
                                  ELSE @[i]]],
              slice |-> [arr |-> s.arr, len |-> need, cap |-> s.cap]]
        ELSE [heap |-> Append(h, Read(h, s) \o Read(h, t)),
              slice |-> [arr |-> Len(h) + 1, len |-> need, cap |-> need]]

\* Combine appending the global overrides to the package's
Combine_PackageFirst(h, g, pkg) ==
    LET r == AppendSlice(h, pkg.Overrides, g.Overrides)
    IN  [heap |-> r.heap,
         view |-> [Global |-> g, Package |-> pkg, Overrides |-> r.slice]]

\* Combine(gen, pkg): the returned CombinedSettings and the heap after the call
Combine(h, g, pkg) ==
    LET r == AppendSlice(h, g.Overrides, pkg.Overrides)
    IN  [heap |-> r.heap,
         view |-> [Global |-> g, Package |-> pkg, Overrides |-> r.slice]]

-----------------------------------------------------------------------------
(* Inputs of Override.Parse.                                               *)

TypeAlphabet == {"g", "o", ".", "/", "*", "-"}
ColumnAlphabet == {"a", "b", "."}

KSUID ==
    <<"g","i","t","h","u","b",".","c","o","m","/","s","e","g","m","e","n","t","i","o",
      "/","k","s","u","i","d",".","K","S","U","I","D">>

ExampleTypes ==
    { <<"i","n","t">>, <<"s","t","r","i","n","g">>, <<"*","i","n","t">>,
      KSUID, <<"*">> \o KSUID,
      <<"g","i","t","h","u","b",".","c","o","m","/","f","o","o">>,
      <<"t","i","m","e",".","T","i","m","e">>,
      <<"x","/","g","o","-","p","q",".","T">>,
      <<"x","/","p","q","-","g","o",".","T","-","g","o">> }

ColumnAB == <<"a", ".", "b">>

\* the ways of supplying exactly one of db_type, postgres_type and column
ExclusiveFields == { <<"", "", ColumnAB>>, <<"t", "", << >> >>, <<"", "p", << >> >> }

ZeroOverride == NewOverride(<< >>, "", "", "", << >>)
ZeroSettings == [Version |-> "", Packages |-> << >>, Overrides |-> << >>]
NilSlice == [arr |-> 0, len |-> 0, cap |-> 0]

InitParse ==
    /\ pc = "parse"
    /\ \/ \* every short go_type, and the examples, with exactly one of column,
          \* db_type and postgres_type
          \E f \in ExclusiveFields :
            \/ \E k \in 0..MaxTypeLen : \E t \in [1..k -> TypeAlphabet] :
                 raw = NewOverride(t, f[1], f[2], "", f[3])
            \/ \E t \in ExampleTypes : raw = NewOverride(t, f[1], f[2], "", f[3])
       \/ \* every short column with every combination of db_type and postgres_type
          \E k \in 0..MaxColumnLen : \E c \in [1..k -> ColumnAlphabet] :
          \E t \in { << >>, <<"i","n","t">> }, d \in {"", "t"}, p \in {"", "p"} :
            raw = NewOverride(t, d, p, "", c)
    /\ ov = raw
    /\ perr = nil
    /\ doc = ZeroSettings /\ config = ZeroSettings /\ cerr = nil
    /\ heap = << >> /\ gen = NilSlice /\ views = << >> /\ lastCall = << >>

\* err := o.Parse()
DoParse ==
    /\ pc = "parse"
    /\ ov' = Parse(raw).o
    /\ perr' = Parse(raw).err
    /\ pc' = "parsed"
    /\ UNCHANGED <<raw, doc, config, cerr, heap, gen, views, lastCall>>

NextParse == DoParse

SpecParse == InitParse /\ [][NextParse]_vars

-----------------------------------------------------------------------------
(* Claims about Override.Parse, checked under SpecParse.                   *)

\* the deprecated alias and the primary field are not both set
AliasOK(r) == ~(r.Deprecated_PostgresType # "" /\ r.DBType # "")
\* the type reference after migration
MigratedDBType(r) ==
    IF r.Deprecated_PostgresType # "" THEN r.Deprecated_PostgresType ELSE r.DBType
\* number of '.' in s
Dots(s) == Cardinality({ i \in 1..Len(s) : s[i] = "." })
\* the override passes migration and the mutual-exclusion check
PassesExclusion(r) ==
    AliasOK(r) /\ ((r.Column # << >>) # (MigratedDBType(r) # ""))
\* the override reaches the go_type step of Parse
ReachesGoType(r) ==
    PassesExclusion(r) /\ (r.Column # << >> => Dots(r.Column) \in 1..3)

\* C3: Parse fails when postgres_type and db_type are both set; otherwise a set
\* postgres_type is copied into db_type and is not itself a failure; Parse then
\* fails when column and db_type are both set and when neither is; so a
\* successful Parse leaves exactly one of column and db_type non-empty.
C3_ExactlyOne ==
    pc = "parsed" =>
        /\ ~AliasOK(raw) => perr = ErrPostgresAndDBType
        /\ AliasOK(raw) =>
            /\ perr # ErrPostgresAndDBType
            /\ ov.DBType = MigratedDBType(raw)
            /\ (raw.Column # << >> /\ MigratedDBType(raw) # "") => perr = ErrColumnAndDBType
            /\ (raw.Column = << >> /\ MigratedDBType(raw) = "") => perr = ErrNoColumnNoDBType
        /\ perr = nil => ((ov.Column # << >>) # (ov.DBType # ""))

\* C3 witness: an override with only postgres_type set is parsed successfully,
\* its db_type now holding the alias
C3_Witness ==
    /\ pc = "parsed" /\ perr = nil
    /\ raw.Deprecated_PostgresType = "p" /\ raw.DBType = ""
    /\ ov.DBType = "p" /\ ov.Column = << >>

Public == <<"p","u","b","l","i","c">>

\* C5: a non-empty column of an override that passes the mutual-exclusion
\* check is split on '.': 2 segments give schema "public", table, column; 3 give
\* schema, table, column; 4 give catalog, schema, table, column; any other
\* count fails with the column-format error, column and table left unset.
C5_ColumnBySegments ==
    (pc = "parsed" /\ PassesExclusion(raw) /\ raw.Column # << >>) =>
        LET n == Dots(raw.Column) + 1
            seg(k) == \* the k-th segment, from 0: between the k-th and (k+1)-th '.'
                LET cut == { i \in 1..Len(raw.Column) : raw.Column[i] = "." }
                    lo == IF k = 0 THEN 0
                          ELSE CHOOSE i \in cut : Cardinality({ j \in cut : j < i }) = k - 1
                    hi == IF k = n - 1 THEN Len(raw.Column) + 1
                          ELSE CHOOSE i \in cut : Cardinality({ j \in cut : j < i }) = k
                IN  SubSeq(raw.Column, lo + 1, hi - 1)
        IN  /\ n = 2 => /\ perr # ErrColumnFormat
                        /\ ov.Table = [Catalog |-> << >>, Schema |-> Public, Rel |-> seg(0)]
                        /\ ov.ColumnName = seg(1)
            /\ n = 3 => /\ perr # ErrColumnFormat
                        /\ ov.Table = [Catalog |-> << >>, Schema |-> seg(0), Rel |-> seg(1)]
                        /\ ov.ColumnName = seg(2)
            /\ n = 4 => /\ perr # ErrColumnFormat
                        /\ ov.Table = [Catalog |-> seg(0), Schema |-> seg(1), Rel |-> seg(2)]
                        /\ ov.ColumnName = seg(3)
            /\ n \notin {2, 3, 4} => /\ perr = ErrColumnFormat
                                     /\ ov.ColumnName = << >>
                                     /\ ov.Table = FQNZero

\* C5 witness: a four-segment column is resolved into catalog, schema, table
\* and column
C5_Witness ==
    /\ pc = "parsed" /\ perr = nil
    /\ raw.Column = <<"a",".","b",".","a",".","b">>
    /\ ov.Table = [Catalog |-> <<"a">>, Schema |-> <<"b">>, Rel |-> <<"a">>]
    /\ ov.ColumnName = <<"b">>

\* the go_type has the shape importpath/pkg.TypeName: a '.' after its last '/'
PackageQualified(t) == LastIndex(t, "/") >= 0 /\ LastIndex(t, ".") > LastIndex(t, "/")
IsPointer(t) == Len(t) > 0 /\ t[1] = "*"
Sigil(t) == IF IsPointer(t) THEN <<"*">> ELSE << >>
AfterLastDot(t) == SubSeq(t, LastIndex(t, ".") + 2, Len(t))
AfterLastSlash(t) == SubSeq(t, LastIndex(t, "/") + 2, Len(t))
\* everything before the last '.', less one leading '*'
ImportPath(t) == SubSeq(t, IF IsPointer(t) THEN 2 ELSE 1, LastIndex(t, "."))
\* s less a leading "go-" and then a trailing "-go"
Unaffixed(s) ==
    LET a == IF Len(s) >= 3 /\ s[1] = "g" /\ s[2] = "o" /\ s[3] = "-"
             THEN SubSeq(s, 4, Len(s)) ELSE s
        n == Len(a)
    IN  IF n >= 3 /\ a[n-2] = "-" /\ a[n-1] = "g" /\ a[n] = "o"
        THEN SubSeq(a, 1, n - 3) ELSE a

\* C4 as stated: for a package-qualified go_type, the package path is everything
\* before the last '.' (less a single leading '*'), the type is not builtin, and
\* the resolved type name is the bare TypeName after the last '.', prefixed
\* with '*' when the string begins with '*'.
C4_Original ==
    (pc = "parsed" /\ ReachesGoType(raw) /\ PackageQualified(raw.GoType)) =>
        /\ perr = nil
        /\ ov.GoBasicType = FALSE
        /\ ov.GoPackage = ImportPath(raw.GoType)
        /\ ov.GoTypeName = Sigil(raw.GoType) \o AfterLastDot(raw.GoType)

\* C4 amended: as C4, except that the resolved type name is the text after
\* the last '/' (pkg.TypeName), less a leading "go-" and then a trailing "-go",
\* prefixed with '*' when the string begins with '*'.
C4_PackageAndQualifiedName ==
    (pc = "parsed" /\ ReachesGoType(raw) /\ PackageQualified(raw.GoType)) =>
        /\ perr = nil
        /\ ov.GoBasicType = FALSE
        /\ ov.GoPackage = ImportPath(raw.GoType)
        /\ ov.GoTypeName = Sigil(raw.GoType) \o Unaffixed(AfterLastSlash(raw.GoType))

\* C4 witness: "*github.com/segmentio/ksuid.KSUID" is parsed to package
\* "github.com/segmentio/ksuid" and type name "*ksuid.KSUID"
C4_Witness ==
    /\ pc = "parsed" /\ perr = nil
    /\ raw.GoType = <<"*">> \o KSUID
    /\ ov.GoPackage = SubSeq(KSUID, 1, 26)
    /\ ov.GoTypeName = <<"*","k","s","u","i","d",".","K","S","U","I","D">>

\* C8 as stated: a go_type with a '/' but no '.' after its last '/' fails with
\* the go_type format error, one with a '.' but no '/' fails with it, and only
\* strings with a '.' after the last '/' are accepted as package-qualified.
C8_MalformedRejected ==
    (pc = "parsed" /\ ReachesGoType(raw)) =>
        LET lastDot == LastIndex(raw.GoType, ".")
            lastSlash == LastIndex(raw.GoType, "/")
        IN  /\ (lastSlash # -1 /\ lastDot < lastSlash) => perr = ErrGoTypeFormat
            /\ (lastDot # -1 /\ lastSlash = -1) => perr = ErrGoTypeFormat
            /\ (perr = nil /\ ~ov.GoBasicType) => PackageQualified(raw.GoType)

\* C9: Parse never indexes or slices out of range, whatever the go_type; and
\* for an override that reaches the go_type step, the empty go_type and the
\* lone "*" end in the not-a-basic-type error.
C9_NoPanic ==
    pc = "parsed" =>
        /\ perr # panic
        /\ (ReachesGoType(raw) /\ raw.GoType \in { << >>, <<"*">> }) => perr = ErrNotBasicType

\* C9 witness: a column override whose go_type is the lone "*" ends in the
\* not-a-basic-type error
C9_Witness ==
    /\ pc = "parsed" /\ perr = ErrNotBasicType
    /\ raw.GoType = <<"*">> /\ raw.Column = ColumnAB

-----------------------------------------------------------------------------
(* Inputs of ParseConfig: every document of at most MaxItems packages and  *)
(* overrides, over the field values below.                                 *)

Versions == {"", "1", "2"}
Engines == {"", EngineMySQL, EnginePostgreSQL}
Names == { << >>, <<"n">> }
PathAB == <<"a", "/", "b">>
Paths == { << >>, PathAB, <<"/">> }

\* a valid column override; one with neither column nor db_type; a db_type
\* override without go_type
GoodOverride(engine) == NewOverride(<<"i","n","t">>, "", "", engine, ColumnAB)
EmptyOverride(engine) == NewOverride(<<"i","n","t">>, "", "", engine, << >>)
UntypedOverride(engine) == NewOverride(<< >>, "t", "", engine, << >>)

GlobalOverridePool ==
    { GoodOverride(""), GoodOverride(EngineMySQL),
      UntypedOverride(""), UntypedOverride(EngineMySQL) }
PackageOverridePool == { GoodOverride(""), EmptyOverride(""), UntypedOverride("") }

NewPackage(name, engine, path, overrides) ==
    [Name |-> name, Engine |-> engine, Path |-> path, Overrides |-> overrides]

\* counts[1] + ... + counts[j]
RECURSIVE SumTo(_, _)
SumTo(counts, j) == IF j = 0 THEN 0 ELSE counts[j] + SumTo(counts, j - 1)

\* the document of n packages, package j carrying counts[j] overrides taken in
\* order from the list flat
Document(version, n, names, engines, paths, counts, flat, global) ==
    [Version |-> version,
     Packages |-> [j \in 1..n |->
                     NewPackage(names[j], engines[j], paths[j],
                                SubSeq(flat, SumTo(counts, j - 1) + 1, SumTo(counts, j)))],
     Overrides |-> global]

InitConfig ==
    /\ pc = "config"
    /\ \E n \in 0..MaxItems :
       \E counts \in [1..n -> 0..(MaxItems - n)] :
         /\ SumTo(counts, n) <= MaxItems - n
         /\ \E k \in 0..(MaxItems - n - SumTo(counts, n)) :
            \E names \in [1..n -> Names], engines \in [1..n -> Engines],
               paths \in [1..n -> Paths],
               flat \in [1..SumTo(counts, n) -> PackageOverridePool],
               global \in [1..k -> GlobalOverridePool], version \in Versions :
              doc = Document(version, n, names, engines, paths, counts, flat, global)
    /\ config = doc
    /\ cerr = nil
    /\ raw = ZeroOverride /\ ov = ZeroOverride /\ perr = nil
    /\ heap = << >> /\ gen = NilSlice /\ views = << >> /\ lastCall = << >>

\* config, err := ParseConfig(rd), the document having been decoded
DoParseConfig ==
    /\ pc = "config"
    /\ config' = ParseConfig(doc).config
    /\ cerr' = ParseConfig(doc).err
    /\ pc' = "configured"
    /\ UNCHANGED <<raw, ov, perr, doc, heap, gen, views, lastCall>>

NextConfig == DoParseConfig

SpecConfig == InitConfig /\ [][NextConfig]_vars

-----------------------------------------------------------------------------
(* Claims about ParseConfig, checked under SpecConfig.                     *)

\* the least member of a non-empty set of indices
Least(S) == CHOOSE i \in S : \A j \in S : i <= j
\* the indices of the overrides of a list that Parse rejects
Rejected(overrides) == { i \in Range(overrides) : Parse(overrides[i]).err # nil }
\* the engine check fails: several written engine tags, a global override
\* without one
EngineCheckFails(d) ==
    /\ \E j, k \in Range(d.Packages) : d.Packages[j].Engine # d.Packages[k].Engine
    /\ \E i \in Range(d.Overrides) : d.Overrides[i].Engine = ""
\* the packages in which a step fails: no path, or a rejected override
FailingPackages(d) ==
    { j \in Range(d.Packages) :
        d.Packages[j].Path = << >> \/ Rejected(d.Packages[j].Overrides) # {} }

\* the error of the first failing step of a document, in the documented order
FirstFailure(d) ==
    IF d.Version = "" THEN ErrMissingVersion
    ELSE IF d.Version # "1" THEN ErrUnknownVersion
    ELSE IF d.Packages = << >> THEN ErrNoPackages
    ELSE IF EngineCheckFails(d) THEN ErrEngineRequired
    ELSE IF Rejected(d.Overrides) # {}
         THEN Parse(d.Overrides[Least(Rejected(d.Overrides))]).err
    ELSE IF FailingPackages(d) # {}
         THEN LET p == d.Packages[Least(FailingPackages(d))]
              IN  IF p.Path = << >> THEN ErrNoPackagePath
                  ELSE Parse(p.Overrides[Least(Rejected(p.Overrides))]).err
    ELSE nil

\* C1: ParseConfig returns the error of the first failing step in the order
\* version, package list, engine check, global overrides in order, then per
\* package in order its path and its overrides in order; nil if none fails.
C1_FirstFailure ==
    pc = "configured" => cerr = FirstFailure(doc)

\* C1 witness: a package without a path follows a package with a rejected
\* override, and the override's error is the one returned; no earlier step fails
C1_Witness ==
    /\ pc = "configured"
    /\ Len(doc.Packages) = 2
    /\ doc.Packages[1].Path # << >> /\ doc.Packages[1].Overrides = <<EmptyOverride("")>>
    /\ doc.Packages[2].Path = << >>
    /\ cerr = ErrNoColumnNoDBType

\* C2: with version "1" and at least one package, ParseConfig fails with the
\* engine-required error exactly when the packages' engine tags as written hold
\* more than one distinct value and some global override has no engine tag.
C2_EngineRequired ==
    (pc = "configured" /\ doc.Version = "1" /\ Len(doc.Packages) > 0) =>
        (cerr = ErrEngineRequired <=> EngineCheckFails(doc))

\* C2 witness: two packages, one with no engine tag and one tagged
\* "postgresql", and a global override without engine tag: engine required
C2_Witness ==
    /\ pc = "configured" /\ cerr = ErrEngineRequired
    /\ Len(doc.Packages) = 2
    /\ doc.Packages[1].Engine = "" /\ doc.Packages[2].Engine = EnginePostgreSQL
    /\ doc.Overrides = <<GoodOverride("")>>

\* C7: after a successful ParseConfig every package has a non-empty path, a
\* name that is the written name or, if none was written, the final segment of
\* the path, and an engine that is the written tag or, if none, "postgresql";
\* name and engine are non-empty.
C7_PackageDefaults ==
    (pc = "configured" /\ cerr = nil) =>
        /\ Len(config.Packages) = Len(doc.Packages)
        /\ \A j \in Range(config.Packages) :
            LET p == config.Packages[j]
                d == doc.Packages[j]
            IN  /\ p.Path # << >> /\ p.Path = d.Path
                /\ p.Name # << >>
                /\ p.Name = (IF d.Name = << >> THEN Base(d.Path) ELSE d.Name)
                /\ p.Engine # ""
                /\ p.Engine = (IF d.Engine = "" THEN EnginePostgreSQL ELSE d.Engine)

\* C7 witness: a successful validation after which the packages carry one
\* distinct engine tag where the document carried two, a name being defaulted
C7_Witness ==
    /\ pc = "configured" /\ cerr = nil
    /\ Cardinality({ doc.Packages[j].Engine : j \in Range(doc.Packages) }) = 2
    /\ Cardinality({ config.Packages[j].Engine : j \in Range(config.Packages) }) = 1
    /\ \E j \in Range(doc.Packages) :
        doc.Packages[j].Name = << >> /\ config.Packages[j].Name = <<"b">>

-----------------------------------------------------------------------------
(* Inputs of Combine: validated settings whose global override slice holds *)
(* up to MaxGlobal overrides and has up to MaxSpare elements of capacity   *)
(* beyond its length (the JSON decoder grows the slices it fills, so a     *)
(* decoded slice can have either), and three packages with one, two and no *)
(* overrides.                                                              *)

Normalized(o) == Parse(o).o
OverrideG1 == Normalized(GoodOverride(EngineMySQL))
OverrideG2 == Normalized(NewOverride(KSUID, "t", "", EnginePostgreSQL, << >>))
OverrideP1 == Normalized(NewOverride(<<"s","t","r","i","n","g">>, "", "", "", <<"b",".","a">>))
OverrideP2 == Normalized(NewOverride(<<"i","n","t">>, "", "p", "", << >>))

GlobalElements == {OverrideG1, OverrideG2}

\* a backing array of the elements with spare zero elements after them
Backing(elements, spare) == elements \o [i \in 1..spare |-> ZeroOverride]

InitCombine ==
    /\ pc = "combine"
    /\ \E n \in 0..MaxGlobal, spare \in 0..MaxSpare :
       \E elements \in [1..n -> GlobalElements] :
         /\ n = 0 => spare = 0
         /\ heap = << Backing(elements, spare),
                      <<OverrideP1>>,
                      <<OverrideP2, OverrideP1>> >>
         /\ gen = [Version |-> "1",
                   Packages |-> <<
                     NewPackage(<<"p">>, EngineMySQL, PathAB, [arr |-> 2, len |-> 1, cap |-> 1]),
                     NewPackage(<<"q">>, EnginePostgreSQL, PathAB, [arr |-> 3, len |-> 2, cap |-> 2]),
                     NewPackage(<<"r">>, EnginePostgreSQL, PathAB, NilSlice) >>,
                   Overrides |-> IF n = 0 THEN NilSlice
                                 ELSE [arr |-> 1, len |-> n, cap |-> n + spare]]
    /\ views = << >>
    /\ lastCall = << >>
    /\ raw = ZeroOverride /\ ov = ZeroOverride /\ perr = nil
    /\ doc = ZeroSettings /\ config = ZeroSettings /\ cerr = nil

\* view := Combine(gen, gen.Packages[j]), the caller keeping every view
DoCombine(j) ==
    /\ pc = "combine"
    /\ Len(views) < MaxCalls
    /\ LET pkg == gen.Packages[j]
           r == Combine(heap, gen, pkg)
       IN  /\ heap' = r.heap
           /\ views' = Append(views, r.view)
           /\ lastCall' = <<[gen |-> gen, pkg |-> pkg,
                             genOverrides |-> Read(heap, gen.Overrides),
                             pkgOverrides |-> Read(heap, pkg.Overrides)]>>
    /\ UNCHANGED <<pc, raw, ov, perr, doc, config, cerr, gen>>

NextCombine == \E j \in 1..Len(gen.Packages) : DoCombine(j)

SpecCombine == InitCombine /\ [][NextCombine]_vars

-----------------------------------------------------------------------------
(* Claims about Combine, checked under SpecCombine.                        *)

\* C6: the view a Combine call returns has, as the call returns, an Overrides
\* sequence that is the global overrides followed by the package's overrides,
\* each group in order, of length the sum of the two; its Global and Package
\* fields are the arguments.
C6_Concatenation ==
    lastCall # << >> =>
        LET v == views[Len(views)]
            call == lastCall[1]
        IN  /\ v.Global = call.gen
            /\ v.Package = call.pkg
            /\ Read(heap, v.Overrides) = call.genOverrides \o call.pkgOverrides
            /\ v.Overrides.len = Len(call.genOverrides) + Len(call.pkgOverrides)

\* C6 witness: a call with two global and two package overrides has returned
\* the four in order
C6_Witness ==
    /\ lastCall # << >>
    /\ lastCall[1].genOverrides = <<OverrideG1, OverrideG2>>
    /\ Read(heap, views[Len(views)].Overrides)
         = <<OverrideG1, OverrideG2, OverrideP2, OverrideP1>>

\* C10 as stated: after any sequence of Combine calls on one settings value,
\* the global overrides keep their length and elements and the Overrides of
\* every view returned so far is still the global overrides followed by the
\* overrides of that view's own package.
C10_ViewsUnchanged ==
    \A i \in 1..Len(views) :
        /\ views[i].Global = gen
        /\ Read(heap, views[i].Overrides)
             = Read(heap, gen.Overrides) \o Read(heap, views[i].Package.Overrides)

====
